---- MODULE Spec2Model ----
(***************************************************************************)
(* Model of search.go of xdcc-cli: the provider registry and its           *)
(* concurrent Search (goroutines, sync.WaitGroup, shared slice), the       *)
(* xdcc.eu provider (fetch, row loop, parseFields) and parseFileSize.      *)
(*                                                                         *)
(* Strings are sequences of one-character strings.  Four specifications    *)
(* share the variables:                                                    *)
(*   Spec       XdccProviderRegistry: AddProvider and Search               *)
(*   SpecGrow   the same, with provider results beyond the capacity        *)
(*   SpecParse  parseFileSize and parseFields on one row of fields         *)
(*   SpecEu     the row loop of XdccEuProvider.Search over a document      *)
(***************************************************************************)
EXTENDS Integers, Sequences, FiniteSets, TLC

VARIABLES
    providerList,   \* registry.providerList: sequence of provider kinds
    pcMain,         \* position of the goroutine that calls registry.Search
    spawnIdx,       \* index of the range loop of Search (line 53)
    wgCount,        \* counter of the sync.WaitGroup wg
    callNo,         \* number of calls of registry.Search so far
    allResults,     \* the shared slice variable: its header [ptr, len, cap]
    heap,           \* the backing arrays of the result slice
    task,           \* per-provider goroutine: position, provider result, locals
    returned,       \* value returned by registry.Search
    retErr,         \* error returned by registry.Search
    procExited,     \* the process was terminated (log.Fatal / panic)
    sizeStr,        \* SpecParse: argument of parseFileSize
    psRet,          \* SpecParse: result of parseFileSize
    fields,         \* SpecParse: argument of parseFields
    pfRet,          \* SpecParse: result of parseFields
    pcParse,        \* SpecParse: position
    doc,            \* SpecEu: rows matched by doc.Find("tr")
    rowIdx,         \* SpecEu: index j of the Each callback (0-based)
    fileInfos,      \* SpecEu: the fileInfos slice of XdccEuProvider.Search
    euErr,          \* SpecEu: error returned by XdccEuProvider.Search
    pcEu            \* SpecEu: position

regVars == <<providerList, pcMain, callNo, spawnIdx, wgCount, allResults,
             heap, task, returned, retErr, procExited>>
parseVars == <<sizeStr, psRet, fields, pfRet, pcParse>>
euVars == <<doc, rowIdx, fileInfos, euErr, pcEu>>
vars == <<regVars, parseVars, euVars>>

(***************************************************************************)
(* Bounds of the model                                                     *)
(***************************************************************************)
MaxProv == 2        \* providers registered before Search
MaxRes == 2         \* records one provider call returns
MaxLen == 4         \* characters of a Size cell
MaxRows == 3        \* rows (tr elements) of a document, the header included
MaxCalls == 2       \* calls of registry.Search on one registry

(***************************************************************************)
(* Program constants                                                       *)
(***************************************************************************)
MaxProviders == 100
MaxResults == 1024
xdccEuNumberOfEntries == 7
KiloByte == 1024
MegaByte == 1024 * 1024
GigaByte == 1024 * 1024 * 1024

(***************************************************************************)
(* Values of the variables of the specifications that are not running      *)
(***************************************************************************)
NoRet == [val |-> [neg |-> FALSE, hi |-> 0, lo |-> 0], err |-> "none"]
NoInfo == [st |-> "none"]

ParseIdle ==
    /\ sizeStr = <<>>
    /\ psRet = NoRet
    /\ fields = <<>>
    /\ pfRet = NoInfo
    /\ pcParse = "off"

EuIdle ==
    /\ doc = <<>>
    /\ rowIdx = 0
    /\ fileInfos = <<>>
    /\ euErr = "none"
    /\ pcEu = "off"

(***************************************************************************)
(* XdccProviderRegistry                                                    *)
(***************************************************************************)
\* The implementations of XdccSearchProvider: the xdcc.eu provider of this
\* file and any other implementation of the interface.
ProviderKinds == {"eu", "other"}

\* The record provider i returns at position j of its result in the current
\* Search call; the registry copies records without looking into them.
Rec(i, j) == [src |-> i, idx |-> j, call |-> callNo]
\* The zero value of XdccFileInfo, and what is read outside an allocation.
ZeroRec == [src |-> 0, idx |-> 0, call |-> 0]
Garbage == [src |-> -1, idx |-> -1, call |-> -1]
ProviderResult(i, k) == [j \in 1..k |-> Rec(i, j)]

NumProviders == Len(providerList)

\* A slice header, and a backing array: its capacity and the slots written
\* so far (the slots behind them hold the zero value).  Array 0 is the one
\* Search makes at line 49, array i the one append allocates in goroutine i.
Header(ptr, len, cap) == [ptr |-> ptr, len |-> len, cap |-> cap]
NoArray == [cap |-> 0, elems |-> <<>>]

\* make([]XdccFileInfo, 0, MaxResults), line 49
MakeHeap ==
    [a \in 0..MaxProv |->
        IF a = 0 THEN [cap |-> MaxResults, elems |-> <<>>] ELSE NoArray]

\* The element at slot p (from 1) of array a of heap h.
ReadSlot(h, a, p) ==
    IF p <= Len(h[a].elems) THEN h[a].elems[p]
    ELSE IF p <= h[a].cap THEN ZeroRec ELSE Garbage

\* Array a of heap h after v is written at slot p.
WriteSlot(h, a, p, v) ==
    LET e == h[a].elems
    IN  [h[a] EXCEPT !.elems =
            IF p <= Len(e) THEN [e EXCEPT ![p] = v]
            ELSE e \o [q \in 1..(p - Len(e) - 1) |-> ReadSlot(h, a, Len(e) + q)]
                   \o <<v>>]

\* The elements of the slice with header s.
SliceOf(h, s) == [p \in 1..s.len |-> ReadSlot(h, s.ptr, p)]

IdleTask == [pc |-> "idle", out |-> "none", res |-> <<>>,
             s |-> Header(0, 0, 0), wi |-> 0]

\* NewProviderRegistry
NewProviderRegistry ==
    /\ providerList = <<>>
    /\ pcMain = "config"
    /\ callNo = 0
    /\ spawnIdx = 0
    /\ wgCount = 0
    /\ allResults = Header(0, 0, MaxResults)
    /\ heap = MakeHeap
    /\ task = <<>>
    /\ returned = <<>>
    /\ retErr = "none"
    /\ procExited = FALSE

Init == NewProviderRegistry /\ ParseIdle /\ EuIdle

\* registry.AddProvider(provider).  The model registers up to MaxProviders + 1
\* providers, the xdcc.eu provider at most once and among the first MaxProv.
AddProvider(kind) ==
    /\ ~procExited
    /\ UNCHANGED <<parseVars, euVars>>
    /\ pcMain = "config"
    /\ NumProviders <= MaxProviders
    /\ kind = "eu" =>
        /\ NumProviders < MaxProv
        /\ \A i \in 1..NumProviders : providerList[i] # "eu"
    /\ providerList' = Append(providerList, kind)
    /\ UNCHANGED <<pcMain, callNo, spawnIdx, wgCount, allResults, heap, task,
                   returned, retErr, procExited>>

\* Mutant of SearchStart: the result slice of the call before is kept.
SearchStart_KeepsResults ==
    /\ ~procExited
    /\ UNCHANGED <<parseVars, euVars>>
    /\ pcMain \in {"config", "returned"}
    /\ NumProviders <= MaxProv
    /\ callNo < MaxCalls
    /\ callNo' = callNo + 1
    /\ wgCount' = NumProviders
    /\ task' = [i \in 1..NumProviders |-> IdleTask]
    /\ spawnIdx' = 1
    /\ returned' = <<>>
    /\ retErr' = "none"
    /\ pcMain' = IF NumProviders = 0 THEN "wait" ELSE "spawn"
    /\ UNCHANGED <<providerList, allResults, heap, procExited>>

\* Search, lines 49-52: make the result slice, wg.Add(len(providerList)).
\* The model calls Search on registries of at most MaxProv providers, at
\* most MaxCalls times, a call after the one before has returned.
SearchStart ==
    /\ ~procExited
    /\ UNCHANGED <<parseVars, euVars>>
    /\ pcMain \in {"config", "returned"}
    /\ NumProviders <= MaxProv
    /\ callNo < MaxCalls
    /\ callNo' = callNo + 1
    /\ allResults' = Header(0, 0, MaxResults)
    /\ heap' = MakeHeap
    /\ wgCount' = NumProviders
    /\ task' = [i \in 1..NumProviders |-> IdleTask]
    /\ spawnIdx' = 1
    /\ returned' = <<>>
    /\ retErr' = "none"
    /\ pcMain' = IF NumProviders = 0 THEN "wait" ELSE "spawn"
    /\ UNCHANGED <<providerList, procExited>>

\* Search, lines 53-54 and 64: one iteration of the range loop starts the
\* goroutine of provider spawnIdx.
Spawn ==
    /\ ~procExited
    /\ UNCHANGED <<parseVars, euVars>>
    /\ pcMain = "spawn"
    /\ task' = [task EXCEPT ![spawnIdx].pc = "call"]
    /\ spawnIdx' = spawnIdx + 1
    /\ pcMain' = IF spawnIdx = NumProviders THEN "wait" ELSE "spawn"
    /\ UNCHANGED <<providerList, callNo, wgCount, allResults, heap, returned,
                   retErr, procExited>>

\* The goroutine, lines 55-59, for a provider that is not the xdcc.eu one:
\* p.Search returns an error (the goroutine returns) or k records.
OtherSearch(i) ==
    /\ ~procExited
    /\ UNCHANGED <<parseVars, euVars>>
    /\ i \in 1..Len(task)
    /\ task[i].pc = "call"
    /\ providerList[i] = "other"
    /\ \/ task' = [task EXCEPT ![i].pc = "exit", ![i].out = "err"]
       \/ \E k \in 0..MaxRes :
            task' = [task EXCEPT ![i].pc = "read", ![i].out = "ok",
                                 ![i].res = ProviderResult(i, k)]
    /\ UNCHANGED <<providerList, pcMain, callNo, spawnIdx, wgCount, allResults,
                   heap, returned, retErr, procExited>>

\* The same call when the provider returns more records than the result
\* slice has room for: MaxResults + 1 of them.
OtherSearchLarge(i) ==
    /\ ~procExited
    /\ UNCHANGED <<parseVars, euVars>>
    /\ i \in 1..Len(task)
    /\ task[i].pc = "call"
    /\ providerList[i] = "other"
    /\ task' = [task EXCEPT ![i].pc = "read", ![i].out = "ok",
                            ![i].res = ProviderResult(i, MaxResults + 1)]
    /\ UNCHANGED <<providerList, pcMain, callNo, spawnIdx, wgCount, allResults,
                   heap, returned, retErr, procExited>>

\* What XdccEuProvider.Search meets: the request fails (line 123), the status
\* is not 200 (line 129), the body is no HTML document (line 136), a row's
\* Gets cell is empty (line 109), or k rows are accepted.
EuFailures == {"neterr", "status", "parseerr"}

\* The goroutine, lines 55-59, for the xdcc.eu provider.  log.Fatal exits the
\* process before the return that follows it; the slice expression of line
\* 109 panics on an empty Gets cell, which ends the process as well.
EuSearch(i) ==
    /\ ~procExited
    /\ UNCHANGED <<parseVars, euVars>>
    /\ i \in 1..Len(task)
    /\ task[i].pc = "call"
    /\ providerList[i] = "eu"
    /\ \/ \E f \in EuFailures \cup {"panic"} :
            /\ task' = [task EXCEPT ![i].out = f]
            /\ procExited' = TRUE
       \/ \E k \in 0..MaxRes :
            /\ task' = [task EXCEPT ![i].pc = "read", ![i].out = "ok",
                                    ![i].res = ProviderResult(i, k)]
            /\ UNCHANGED procExited
    /\ UNCHANGED <<providerList, pcMain, callNo, spawnIdx, wgCount, allResults,
                   heap, returned, retErr>>

\* append, line 61, first part: the goroutine reads the slice header.  While
\* no append outgrows the capacity the ptr and cap words never change, and
\* the read is the read of the len word.
AppendRead(i) ==
    /\ ~procExited
    /\ UNCHANGED <<parseVars, euVars>>
    /\ i \in 1..Len(task)
    /\ task[i].pc = "read"
    /\ allResults.len + Len(task[i].res) <= allResults.cap
    /\ task' = [task EXCEPT ![i].s = allResults,
                            ![i].wi = 1,
                            ![i].pc = IF Len(task[i].res) = 0 THEN "hdr" ELSE "write"]
    /\ UNCHANGED <<providerList, pcMain, callNo, spawnIdx, wgCount, allResults,
                   heap, returned, retErr, procExited>>

\* Mutant of AppendWrite: the elements are copied in the opposite order.
AppendWrite_Reversed(i) ==
    /\ ~procExited
    /\ UNCHANGED <<parseVars, euVars>>
    /\ i \in 1..Len(task)
    /\ task[i].pc = "write"
    /\ heap' = [heap EXCEPT ![task[i].s.ptr] =
                  WriteSlot(heap, task[i].s.ptr, task[i].s.len + task[i].wi,
                            task[i].res[Len(task[i].res) + 1 - task[i].wi])]
    /\ task' = [task EXCEPT ![i].wi = @ + 1,
                            ![i].pc = IF task[i].wi = Len(task[i].res)
                                      THEN "hdr" ELSE "write"]
    /\ UNCHANGED <<providerList, pcMain, callNo, spawnIdx, wgCount, allResults,
                   returned, retErr, procExited>>

\* append, line 61, second part: one element is copied into the backing
\* array behind the length that was read.
AppendWrite(i) ==
    /\ ~procExited
    /\ UNCHANGED <<parseVars, euVars>>
    /\ i \in 1..Len(task)
    /\ task[i].pc = "write"
    /\ heap' = [heap EXCEPT ![task[i].s.ptr] =
                  WriteSlot(heap, task[i].s.ptr, task[i].s.len + task[i].wi,
                            task[i].res[task[i].wi])]
    /\ task' = [task EXCEPT ![i].wi = @ + 1,
                            ![i].pc = IF task[i].wi = Len(task[i].res)
                                      THEN "hdr" ELSE "write"]
    /\ UNCHANGED <<providerList, pcMain, callNo, spawnIdx, wgCount, allResults,
                   returned, retErr, procExited>>

\* append, line 61, last part: the new header is stored in allResults (the
\* store of the len word, see AppendRead).
AppendHdr(i) ==
    /\ ~procExited
    /\ UNCHANGED <<parseVars, euVars>>
    /\ i \in 1..Len(task)
    /\ task[i].pc = "hdr"
    /\ allResults' = Header(task[i].s.ptr, task[i].s.len + Len(task[i].res),
                            task[i].s.cap)
    /\ task' = [task EXCEPT ![i].pc = "done"]
    /\ UNCHANGED <<providerList, pcMain, callNo, spawnIdx, wgCount, heap,
                   returned, retErr, procExited>>

\* wg.Done(), line 63, and the end of the goroutine.
WgDone(i) ==
    /\ ~procExited
    /\ UNCHANGED <<parseVars, euVars>>
    /\ i \in 1..Len(task)
    /\ task[i].pc = "done"
    /\ wgCount' = wgCount - 1
    /\ task' = [task EXCEPT ![i].pc = "exit"]
    /\ UNCHANGED <<providerList, pcMain, callNo, spawnIdx, allResults, heap,
                   returned, retErr, procExited>>

\* Mutant of WgWait: the wait does not block on the counter.
WgWait_NoBarrier ==
    /\ ~procExited
    /\ UNCHANGED <<parseVars, euVars>>
    /\ pcMain = "wait"
    /\ returned' = SliceOf(heap, allResults)
    /\ retErr' = "nil"
    /\ pcMain' = "returned"
    /\ UNCHANGED <<providerList, callNo, spawnIdx, wgCount, allResults, heap,
                   task, procExited>>

\* wg.Wait() and the return, lines 66-67.
WgWait ==
    /\ ~procExited
    /\ UNCHANGED <<parseVars, euVars>>
    /\ pcMain = "wait"
    /\ wgCount = 0
    /\ returned' = SliceOf(heap, allResults)
    /\ retErr' = "nil"
    /\ pcMain' = "returned"
    /\ UNCHANGED <<providerList, callNo, spawnIdx, wgCount, allResults, heap,
                   task, procExited>>

\* Search on providers that return at most MaxRes records each.
Next ==
    \/ \E kind \in ProviderKinds : AddProvider(kind)
    \/ SearchStart
    \/ Spawn
    \/ \E i \in 1..MaxProv : OtherSearch(i)
    \/ \E i \in 1..MaxProv : EuSearch(i)
    \/ \E i \in 1..MaxProv : AppendRead(i)
    \/ \E i \in 1..MaxProv : AppendWrite(i)
    \/ \E i \in 1..MaxProv : AppendHdr(i)
    \/ \E i \in 1..MaxProv : WgDone(i)
    \/ WgWait

Spec == Init /\ [][Next]_vars

(***************************************************************************)
(* Search when a provider may return more records than the result slice    *)
(* has room for.  append then allocates a new array, so the three words of *)
(* the header of allResults all change, and the goroutines, which are not  *)
(* synchronised, load and store them one word at a time (ptr, len, cap).   *)
(***************************************************************************)
\* s := allResults, the ptr word.
LoadPtr(i) ==
    /\ ~procExited
    /\ UNCHANGED <<parseVars, euVars>>
    /\ i \in 1..Len(task)
    /\ task[i].pc = "read"
    /\ task' = [task EXCEPT ![i].s.ptr = allResults.ptr, ![i].pc = "ldlen"]
    /\ UNCHANGED <<providerList, pcMain, callNo, spawnIdx, wgCount, allResults,
                   heap, returned, retErr, procExited>>

\* s := allResults, the len word.
LoadLen(i) ==
    /\ ~procExited
    /\ UNCHANGED <<parseVars, euVars>>
    /\ i \in 1..Len(task)
    /\ task[i].pc = "ldlen"
    /\ task' = [task EXCEPT ![i].s.len = allResults.len, ![i].pc = "ldcap"]
    /\ UNCHANGED <<providerList, pcMain, callNo, spawnIdx, wgCount, allResults,
                   heap, returned, retErr, procExited>>

\* s := allResults, the cap word, and append's test of the capacity.
LoadCap(i) ==
    /\ ~procExited
    /\ UNCHANGED <<parseVars, euVars>>
    /\ i \in 1..Len(task)
    /\ task[i].pc = "ldcap"
    /\ task' = [task EXCEPT
                  ![i].s.cap = allResults.cap,
                  ![i].wi = 1,
                  ![i].pc = IF task[i].s.len + Len(task[i].res) > allResults.cap
                            THEN "grow"
                            ELSE IF Len(task[i].res) = 0 THEN "hdr" ELSE "write"]
    /\ UNCHANGED <<providerList, pcMain, callNo, spawnIdx, wgCount, allResults,
                   heap, returned, retErr, procExited>>

\* append outgrows the capacity: a new array, private to the goroutine until
\* its header is stored, receives the s.len elements of the old one and the
\* provider's records.  Its capacity is the runtime's choice: the new length
\* or more (here with room for MaxRes further records).
Grow(i) ==
    /\ ~procExited
    /\ UNCHANGED <<parseVars, euVars>>
    /\ i \in 1..Len(task)
    /\ task[i].pc = "grow"
    /\ \E room \in {0, MaxRes} :
        LET newLen == task[i].s.len + Len(task[i].res)
        IN  /\ heap' = [heap EXCEPT ![i] =
                          [cap |-> newLen + room,
                           elems |-> SliceOf(heap, task[i].s)]]
            /\ task' = [task EXCEPT ![i].s.ptr = i,
                                    ![i].s.cap = newLen + room,
                                    ![i].pc = "write"]
    /\ UNCHANGED <<providerList, pcMain, callNo, spawnIdx, wgCount, allResults,
                   returned, retErr, procExited>>

\* The records of the provider are copied behind the s.len elements, into
\* the shared array one element at a time, into a new array in one step.
AppendCopy(i) ==
    /\ ~procExited
    /\ UNCHANGED <<parseVars, euVars>>
    /\ i \in 1..Len(task)
    /\ task[i].pc = "write"
    /\ IF task[i].s.ptr = i
       THEN /\ heap' = [heap EXCEPT ![i].elems = @ \o task[i].res]
            /\ task' = [task EXCEPT ![i].pc = "hdr"]
       ELSE /\ heap' = [heap EXCEPT ![task[i].s.ptr] =
                          WriteSlot(heap, task[i].s.ptr,
                                    task[i].s.len + task[i].wi,
                                    task[i].res[task[i].wi])]
            /\ task' = [task EXCEPT ![i].wi = @ + 1,
                                    ![i].pc = IF task[i].wi = Len(task[i].res)
                                              THEN "hdr" ELSE "write"]
    /\ UNCHANGED <<providerList, pcMain, callNo, spawnIdx, wgCount, allResults,
                   returned, retErr, procExited>>

\* allResults = s, the ptr word.
StorePtr(i) ==
    /\ ~procExited
    /\ UNCHANGED <<parseVars, euVars>>
    /\ i \in 1..Len(task)
    /\ task[i].pc = "hdr"
    /\ allResults' = [allResults EXCEPT !.ptr = task[i].s.ptr]
    /\ task' = [task EXCEPT ![i].pc = "stlen"]
    /\ UNCHANGED <<providerList, pcMain, callNo, spawnIdx, wgCount, heap,
                   returned, retErr, procExited>>

\* allResults = s, the len word.
StoreLen(i) ==
    /\ ~procExited
    /\ UNCHANGED <<parseVars, euVars>>
    /\ i \in 1..Len(task)
    /\ task[i].pc = "stlen"
    /\ allResults' = [allResults EXCEPT !.len = task[i].s.len + Len(task[i].res)]
    /\ task' = [task EXCEPT ![i].pc = "stcap"]
    /\ UNCHANGED <<providerList, pcMain, callNo, spawnIdx, wgCount, heap,
                   returned, retErr, procExited>>

\* allResults = s, the cap word.
StoreCap(i) ==
    /\ ~procExited
    /\ UNCHANGED <<parseVars, euVars>>
    /\ i \in 1..Len(task)
    /\ task[i].pc = "stcap"
    /\ allResults' = [allResults EXCEPT !.cap = task[i].s.cap]
    /\ task' = [task EXCEPT ![i].pc = "done"]
    /\ UNCHANGED <<providerList, pcMain, callNo, spawnIdx, wgCount, heap,
                   returned, retErr, procExited>>

NextGrow ==
    \/ \E kind \in ProviderKinds : AddProvider(kind)
    \/ SearchStart
    \/ Spawn
    \/ \E i \in 1..MaxProv : OtherSearch(i)
    \/ \E i \in 1..MaxProv : OtherSearchLarge(i)
    \/ \E i \in 1..MaxProv : EuSearch(i)
    \/ \E i \in 1..MaxProv : LoadPtr(i)
    \/ \E i \in 1..MaxProv : LoadLen(i)
    \/ \E i \in 1..MaxProv : LoadCap(i)
    \/ \E i \in 1..MaxProv : Grow(i)
    \/ \E i \in 1..MaxProv : AppendCopy(i)
    \/ \E i \in 1..MaxProv : StorePtr(i)
    \/ \E i \in 1..MaxProv : StoreLen(i)
    \/ \E i \in 1..MaxProv : StoreCap(i)
    \/ \E i \in 1..MaxProv : WgDone(i)
    \/ WgWait

SpecGrow == Init /\ [][NextGrow]_vars

(***************************************************************************)
(* Properties of XdccProviderRegistry.Search                               *)
(***************************************************************************)
SearchCalled == pcMain \in {"spawn", "wait", "returned"}
Tasks == 1..Len(task)

\* Every provider's Search call has come back with a result or an error.
AllCallsReturned ==
    /\ pcMain \in {"wait", "returned"}
    /\ \A i \in Tasks : task[i].out \in {"ok", "err"}

\* Search has returned, or some goroutine of it can still take a step.
ReturnedOrRunning == pcMain = "returned" \/ ENABLED Next

RECURSIVE SumLens(_)
SumLens(n) == IF n = 0 THEN 0 ELSE Len(task[n].res) + SumLens(n - 1)

\* C1: once every provider's Search call has returned (result or error),
\* registry.Search is never blocked for good: it has returned or one of its
\* goroutines can still run, so the barrier wait ends.
C1_SearchReturns == AllCallsReturned => ReturnedOrRunning

\* C2: with exactly two providers, one that returns an error and one that
\* returns K records, registry.Search is never blocked for good and what it
\* returns is exactly the K records of the provider that succeeded.
TwoProviderCase(e, s) ==
    /\ Len(task) = 2
    /\ e \in Tasks /\ s \in Tasks
    /\ task[e].out = "err"
    /\ task[s].out = "ok"
C2_OneErrOneOk ==
    \A e, s \in 1..2 :
        TwoProviderCase(e, s) =>
            /\ ReturnedOrRunning
            /\ pcMain = "returned" => returned = task[s].res

\* C3: when every provider succeeds, the list registry.Search returns is as
\* long as the providers' results together.
C3_LengthIsSum ==
    (pcMain = "returned" /\ \A i \in Tasks : task[i].out = "ok")
        => Len(returned) = SumLens(Len(task))

\* C4: no two goroutines are at the same time between reading the shared
\* slice and storing the extended slice back.
InAppend(i) == task[i].pc \in {"write", "hdr"}
C4_AppendExclusive ==
    \A i, j \in Tasks : (i # j) => ~(InAppend(i) /\ InAppend(j))

\* C5: when registry.Search has returned, every goroutine it started has
\* finished: its provider call is over and it has run to its end.
C5_Barrier ==
    pcMain = "returned" =>
        \A i \in Tasks : task[i].pc = "exit" /\ task[i].out # "none"
C5_Witness ==
    /\ pcMain = "returned"
    /\ Len(task) = 2
    /\ \A i \in Tasks : task[i].pc = "exit" /\ Len(task[i].res) > 0

\* C6: the error registry.Search returns is nil, and when every provider
\* returns an error the call is never blocked for good and returns the empty
\* list with a nil error.
AllProvidersFailed ==
    /\ pcMain \in {"wait", "returned"}
    /\ \A i \in Tasks : task[i].out = "err"
C6_NeverFails ==
    /\ pcMain = "returned" => retErr = "nil"
    /\ AllProvidersFailed =>
        /\ ReturnedOrRunning
        /\ pcMain = "returned" => (returned = <<>> /\ retErr = "nil")

\* C7: when the xdcc.eu provider's request fails, the status is not 200 or
\* the body is no HTML document, the process keeps running and the goroutine
\* of the call ends with the error.
C7_EuErrorReturned ==
    \A i \in Tasks :
        task[i].out \in EuFailures => (~procExited /\ task[i].pc = "exit")

(***************************************************************************)
(* Strings and numbers                                                     *)
(***************************************************************************)
Digits == <<"0", "1", "2", "3", "4", "5", "6", "7", "8", "9">>
IsDigit(c) == \E d \in 1..10 : Digits[d] = c
DigitVal(c) == (CHOOSE d \in 1..10 : Digits[d] = c) - 1

RECURSIVE DecVal(_)
DecVal(ds) ==
    IF ds = <<>> THEN 0
    ELSE 10 * DecVal(SubSeq(ds, 1, Len(ds) - 1)) + DigitVal(ds[Len(ds)])

\* An int64 as sign and magnitude, the magnitude as hi * 2^20 + lo with
\* 0 <= lo < 2^20 (the byte counts of the model exceed 32 bits).
Int64(neg, hi, lo) ==
    [neg |-> neg /\ (hi # 0 \/ lo # 0), hi |-> hi, lo |-> lo]
MinusOne == Int64(TRUE, 0, 1)
Zero64 == Int64(FALSE, 0, 0)
IsNonNegative(x) == ~x.neg

\* The decimal a string denotes for strconv.ParseFloat (readFloat), on the
\* characters of the model: an optional sign, decimal digits with at most
\* one point, at least one digit.  The value is n / 10^d.
ReadDecimal(s) ==
    LET signed == s # <<>> /\ s[1] \in {"+", "-"}
        body == IF signed THEN Tail(s) ELSE s
        dots == {p \in 1..Len(body) : body[p] = "."}
        wellFormed == /\ \A p \in 1..Len(body) : IsDigit(body[p]) \/ body[p] = "."
                      /\ Cardinality(dots) <= 1
                      /\ \E p \in 1..Len(body) : IsDigit(body[p])
    IN  IF ~wellFormed THEN [ok |-> FALSE, neg |-> FALSE, n |-> 0, d |-> 0]
        ELSE [ok |-> TRUE,
              neg |-> signed /\ s[1] = "-",
              n |-> DecVal(SelectSeq(body, IsDigit)),
              d |-> IF dots = {} THEN 0
                    ELSE Len(body) - (CHOOSE p \in dots : TRUE)]

\* The float32 nearest to (q + r / D) / 2^k, ties to even, as m / 2^k: the
\* binary expansion is carried on until the significand has 24 bits.
RECURSIVE F32Bits(_, _, _, _)
F32Bits(q, r, k, D) ==
    IF r = 0 THEN [m |-> q, k |-> k]
    ELSE IF q >= 2^23
         THEN [m |-> q + (IF 2 * r > D THEN 1
                          ELSE IF 2 * r = D THEN q % 2 ELSE 0),
               k |-> k]
         ELSE F32Bits(2 * q + (IF 2 * r >= D THEN 1 ELSE 0), (2 * r) % D, k + 1, D)

\* strconv.ParseFloat(s, 32): the float32 nearest to the decimal, or a
\* syntax error.
ParseFloat32(s) ==
    LET dec == ReadDecimal(s)
    IN  IF ~dec.ok THEN [err |-> "syntax", neg |-> FALSE, m |-> 0, k |-> 0]
        ELSE LET D == 10^dec.d
                 f == F32Bits(dec.n \div D, dec.n % D, 0, D)
             IN  [err |-> "nil", neg |-> dec.neg, m |-> f.m, k |-> f.k]

\* int64(size * unit) for a float m / 2^k and unit = 2^e: the product is
\* exact in float64 and the conversion truncates toward zero.
TruncScaled(neg, m, k, e) ==
    LET s == e - k
    IN  IF s >= 20 THEN Int64(neg, m * 2^(s - 20), 0)
        ELSE IF s >= 0
             THEN Int64(neg, m \div 2^(20 - s), (m % 2^(20 - s)) * 2^s)
             ELSE LET t == IF -s > 30 THEN 0 ELSE m \div 2^(-s)
                  IN  Int64(neg, t \div 2^20, t % 2^20)

\* The exponent e of a unit constant 2^e.
RECURSIVE Log2(_)
Log2(x) == IF x <= 1 THEN 0 ELSE 1 + Log2(x \div 2)

(***************************************************************************)
(* parseFileSize                                                           *)
(***************************************************************************)
\* parseFileSize(sizeStr), lines 74-95
parseFileSize(s) ==
    IF Len(s) = 0 THEN [val |-> MinusOne, err |-> "empty"]
    ELSE LET lastChar == s[Len(s)]
             sizePart == SubSeq(s, 1, Len(s) - 1)
             size == ParseFloat32(sizePart)
         IN  IF size.err # "nil" THEN [val |-> MinusOne, err |-> size.err]
             ELSE IF lastChar = "G"
                  THEN [val |-> TruncScaled(size.neg, size.m, size.k, Log2(GigaByte)),
                        err |-> "nil"]
             ELSE IF lastChar = "M"
                  THEN [val |-> TruncScaled(size.neg, size.m, size.k, Log2(MegaByte)),
                        err |-> "nil"]
             ELSE IF lastChar = "K"
                  THEN [val |-> TruncScaled(size.neg, size.m, size.k, Log2(KiloByte)),
                        err |-> "nil"]
             ELSE [val |-> MinusOne, err |-> "unit"]

\* strconv.Atoi(s): an optional sign and decimal digits, at least one.
Atoi(s) ==
    LET signed == s # <<>> /\ s[1] \in {"+", "-"}
        body == IF signed THEN Tail(s) ELSE s
    IN  IF body = <<>> \/ \E p \in 1..Len(body) : ~IsDigit(body[p])
        THEN [err |-> "syntax", val |-> 0]
        ELSE [err |-> "nil",
              val |-> IF signed /\ s[1] = "-" THEN -DecVal(body) ELSE DecVal(body)]

(***************************************************************************)
(* XdccEuProvider.parseFields                                              *)
(***************************************************************************)
\* &XdccFileInfo{}
ZeroInfo ==
    [Network |-> <<>>, Channel |-> <<>>, BotName |-> <<>>, Name |-> <<>>,
     Gets |-> 0, Url |-> <<>>, Command |-> <<>>, Size |-> Zero64, Slot |-> <<>>]

\* Mutant of parseFields: rows with more than seven fields are accepted.
parseFields_AtLeast(fs) ==
    IF Len(fs) < xdccEuNumberOfEntries THEN [st |-> "err", info |-> ZeroInfo]
    ELSE IF Len(fs[5]) = 0 THEN [st |-> "panic", info |-> ZeroInfo]
    ELSE LET gets == Atoi(SubSeq(fs[5], 1, Len(fs[5]) - 1))
         IN  [st |-> "ok",
              info |-> [ZeroInfo EXCEPT
                          !.Network = fs[1],
                          !.Channel = fs[2],
                          !.BotName = fs[3],
                          !.Slot = fs[4],
                          !.Gets = IF gets.err = "nil" THEN gets.val ELSE 0,
                          !.Size = parseFileSize(fs[6]).val,
                          !.Name = fs[7]]]

\* parseFields(fields), lines 99-116.  st is "err" for a wrong number of
\* fields, "panic" when the slice expression fields[4][:len(fields[4])-1] of
\* line 109 is out of range (an empty Gets field), "ok" otherwise.
parseFields(fs) ==
    IF Len(fs) # xdccEuNumberOfEntries THEN [st |-> "err", info |-> ZeroInfo]
    ELSE IF Len(fs[5]) = 0 THEN [st |-> "panic", info |-> ZeroInfo]
    ELSE LET gets == Atoi(SubSeq(fs[5], 1, Len(fs[5]) - 1))
         IN  [st |-> "ok",
              info |-> [ZeroInfo EXCEPT
                          !.Network = fs[1],
                          !.Channel = fs[2],
                          !.BotName = fs[3],
                          !.Slot = fs[4],
                          !.Gets = IF gets.err = "nil" THEN gets.val ELSE 0,
                          !.Size = parseFileSize(fs[6]).val,
                          !.Name = fs[7]]]

(***************************************************************************)
(* SpecParse: parseFileSize and parseFields on bounded inputs              *)
(***************************************************************************)
SizeChars == {"0", "1", "5", ".", "-", "G", "M", "K", "X"}
SizeStrings == UNION {[1..n -> SizeChars] : n \in 0..MaxLen}
GetsTexts == {<<>>, <<"5", "x">>, <<"a", "x">>}

\* A row of seven fields with the given Gets and Size fields.
FieldsOf(gets, size) ==
    <<<<"n">>, <<"#", "c">>, <<"b">>, <<"#", "1">>, gets, size, <<"f">>>>

InitParse ==
    /\ NewProviderRegistry
    /\ EuIdle
    /\ sizeStr \in SizeStrings
    /\ \E g \in GetsTexts : fields = FieldsOf(g, sizeStr)
    /\ psRet = NoRet
    /\ pfRet = NoInfo
    /\ pcParse = "start"

CallParseFileSize ==
    /\ pcParse = "start"
    /\ psRet' = parseFileSize(sizeStr)
    /\ pcParse' = "sized"
    /\ UNCHANGED <<sizeStr, fields, pfRet, regVars, euVars>>

CallParseFields ==
    /\ pcParse = "sized"
    /\ pfRet' = parseFields(fields)
    /\ pcParse' = "done"
    /\ UNCHANGED <<sizeStr, fields, psRet, regVars, euVars>>

NextParse == CallParseFileSize \/ CallParseFields

SpecParse == InitParse /\ [][NextParse]_vars

(***************************************************************************)
(* Properties of parseFileSize and parseFields                             *)
(***************************************************************************)
\* floor((q + r / D) * 2^j) for r < D
RECURSIVE FloorShift(_, _, _, _)
FloorShift(q, r, j, D) ==
    IF j = 0 THEN q
    ELSE FloorShift(2 * q + (IF 2 * r >= D THEN 1 ELSE 0), (2 * r) % D, j - 1, D)

\* The decimal n / 10^d times 1024^u, truncated to an integer.
ExactBytes(neg, n, d, u) ==
    LET D == 10^d
    IN  IF u = 1
        THEN LET t == (n * 1024) \div D
             IN  Int64(neg, t \div 2^20, t % 2^20)
        ELSE LET a == n * 1024^(u - 2)
             IN  Int64(neg, a \div D, FloorShift(0, a % D, 20, D))

UnitPower(c) == IF c = "G" THEN 3 ELSE IF c = "M" THEN 2 ELSE 1

\* C9: the Size of a descriptor parseFields returns is a non-negative byte
\* count or the sentinel -1, and a Size field that parseFileSize cannot
\* decode yields Size = -1 in a row that is still returned.
C9_SizeSentinel ==
    pcParse = "done" =>
        /\ pfRet.st = "ok" =>
             (IsNonNegative(pfRet.info.Size) \/ pfRet.info.Size = MinusOne)
        /\ (psRet.err # "nil" /\ pfRet.st # "panic") =>
             (pfRet.st = "ok" /\ pfRet.info.Size = MinusOne)

\* C10: parseFileSize returns the numeric prefix times 1024^3 (G), 1024^2
\* (M) or 1024 (K), truncated to an integer, and an error with value -1 for
\* the empty string, for a prefix that is no number and for any other unit.
C10_ParseFileSize ==
    pcParse # "start" =>
        IF sizeStr = <<>>
        THEN psRet.err # "nil" /\ psRet.val = MinusOne
        ELSE LET unit == sizeStr[Len(sizeStr)]
                 dec == ReadDecimal(SubSeq(sizeStr, 1, Len(sizeStr) - 1))
             IN  IF ~dec.ok \/ unit \notin {"G", "M", "K"}
                 THEN psRet.err # "nil" /\ psRet.val = MinusOne
                 ELSE /\ psRet.err = "nil"
                      /\ psRet.val = ExactBytes(dec.neg, dec.n, dec.d, UnitPower(unit))

(***************************************************************************)
(* XdccEuProvider.Search: the row loop, lines 141-166                      *)
(***************************************************************************)
\* unicode.IsSpace on the characters of the model
IsSpace(c) == c \in {" ", "\t", "\n", "\r"}

RECURSIVE TrimLeft(_)
TrimLeft(s) == IF s # <<>> /\ IsSpace(s[1]) THEN TrimLeft(Tail(s)) ELSE s
RECURSIVE TrimRight(_)
TrimRight(s) ==
    IF s # <<>> /\ IsSpace(s[Len(s)])
    THEN TrimRight(SubSeq(s, 1, Len(s) - 1)) ELSE s
\* strings.TrimSpace
TrimSpace(s) == TrimRight(TrimLeft(s))

\* strings.Index: the first position of sub in s, 0 when there is none
Index(s, sub) ==
    LET hits == {p \in 1..(Len(s) - Len(sub) + 1) :
                    SubSeq(s, p, p + Len(sub) - 1) = sub}
    IN  IF hits = {} THEN 0 ELSE CHOOSE p \in hits : \A q \in hits : p <= q

\* Mutant of ReplaceFirst: the last occurrence is replaced.
ReplaceFirst_Last(s, old, new) ==
    LET hits == {p \in 1..(Len(s) - Len(old) + 1) :
                    SubSeq(s, p, p + Len(old) - 1) = old}
        p == IF hits = {} THEN 0 ELSE CHOOSE q \in hits : \A r \in hits : r <= q
    IN  IF p = 0 THEN s
        ELSE SubSeq(s, 1, p - 1) \o new \o SubSeq(s, p + Len(old), Len(s))

\* strings.Replace(s, old, new, 1) for a non-empty old
ReplaceFirst(s, old, new) ==
    LET p == Index(s, old)
    IN  IF p = 0 THEN s
        ELSE SubSeq(s, 1, p - 1) \o new \o SubSeq(s, p + Len(old), Len(s))

IrcScheme == <<"i", "r", "c", ":", "/", "/">>
HttpScheme == <<"h", "t", "t", "p", ":", "/", "/">>
MsgPrefix == <<"/", "m", "s", "g", " ">>
XdccSend == <<" ", "x", "d", "c", "c", " ", "s", "e", "n", "d", " ">>

\* The fields of a row: the trimmed text of each child, lines 149-157.
RowFields(row) == [i \in 1..Len(row) |-> TrimSpace(row[i].text)]

\* The url of a row: the href of the first anchor of the child of index 1,
\* when there is one, lines 148-155.
RowUrl(row) ==
    IF Len(row) >= 2 /\ row[2].hasHref THEN row[2].href ELSE <<>>

\* Mutant of EuRow: the row of index 0 is handled like the others.
EuRow_NoSkip ==
    /\ pcEu = "rows"
    /\ rowIdx < Len(doc)
    /\ LET row == doc[rowIdx + 1]
           r == parseFields(RowFields(row))
       IN  IF r.st = "panic"
           THEN pcEu' = "panicked" /\ UNCHANGED <<fileInfos, rowIdx>>
           ELSE IF r.st = "ok"
           THEN /\ fileInfos' = Append(fileInfos,
                    [r.info EXCEPT
                       !.Url = ReplaceFirst(RowUrl(row), IrcScheme, HttpScheme),
                       !.Command = MsgPrefix \o r.info.BotName \o XdccSend \o r.info.Slot])
                /\ rowIdx' = rowIdx + 1
                /\ UNCHANGED pcEu
           ELSE UNCHANGED <<fileInfos, pcEu>> /\ rowIdx' = rowIdx + 1
    /\ UNCHANGED <<doc, euErr, regVars, parseVars>>

\* One call of the callback of doc.Find("tr").Each, lines 142-165, for the
\* row of index rowIdx.
EuRow ==
    /\ pcEu = "rows"
    /\ rowIdx < Len(doc)
    /\ LET row == doc[rowIdx + 1]
           r == parseFields(RowFields(row))
       IN  IF rowIdx = 0
           THEN UNCHANGED <<fileInfos, pcEu>> /\ rowIdx' = rowIdx + 1
           ELSE IF r.st = "panic"
           THEN pcEu' = "panicked" /\ UNCHANGED <<fileInfos, rowIdx>>
           ELSE IF r.st = "ok"
           THEN /\ fileInfos' = Append(fileInfos,
                    [r.info EXCEPT
                       !.Url = ReplaceFirst(RowUrl(row), IrcScheme, HttpScheme),
                       !.Command = MsgPrefix \o r.info.BotName \o XdccSend \o r.info.Slot])
                /\ rowIdx' = rowIdx + 1
                /\ UNCHANGED pcEu
           ELSE UNCHANGED <<fileInfos, pcEu>> /\ rowIdx' = rowIdx + 1
    /\ UNCHANGED <<doc, euErr, regVars, parseVars>>

\* return fileInfos, nil, line 166
EuReturn ==
    /\ pcEu = "rows"
    /\ rowIdx = Len(doc)
    /\ pcEu' = "returned"
    /\ euErr' = "nil"
    /\ UNCHANGED <<doc, rowIdx, fileInfos, regVars, parseVars>>

(***************************************************************************)
(* SpecEu: the row loop on bounded documents                               *)
(***************************************************************************)
CellCounts ==
    {xdccEuNumberOfEntries - 1, xdccEuNumberOfEntries, xdccEuNumberOfEntries + 1}

\* Cell contents of a row: the text of the Gets cell, and the text of the
\* other cells with the Size cell and the anchor of the second cell.
GetsCells == {<<" ", "5", "x">>, <<"a", "x">>, <<" ">>}
CellProfiles ==
    { [text |-> <<" ", "a", " ">>, size |-> <<"1", "K", " ">>,
       hasHref |-> TRUE, href |-> IrcScheme \o <<"s", "/">> \o IrcScheme],
      [text |-> <<" ">>, size |-> <<"X">>, hasHref |-> FALSE, href |-> <<>>] }

MkRow(n, g, c) ==
    [i \in 1..n |->
        [text |-> IF i = 5 THEN g ELSE IF i = 6 THEN c.size ELSE c.text,
         hasHref |-> i = 2 /\ c.hasHref,
         href |-> IF i = 2 THEN c.href ELSE <<>>]]

RowSet == {MkRow(n, g, c) : n \in CellCounts, g \in GetsCells, c \in CellProfiles}
Documents == UNION {[1..n -> RowSet] : n \in 0..MaxRows}

InitEu ==
    /\ NewProviderRegistry
    /\ ParseIdle
    /\ doc \in Documents
    /\ rowIdx = 0
    /\ fileInfos = <<>>
    /\ euErr = "none"
    /\ pcEu = "rows"

NextEu == EuRow \/ EuReturn

SpecEu == InitEu /\ [][NextEu]_vars

(***************************************************************************)
(* Properties of the row loop                                              *)
(***************************************************************************)
\* The cells of a row as a descriptor, position by position.
Positional(row) ==
    LET cell(i) == TrimSpace(row[i].text)
        gets == Atoi(SubSeq(cell(5), 1, Len(cell(5)) - 1))
    IN  [Network |-> cell(1),
         Channel |-> cell(2),
         BotName |-> cell(3),
         Slot |-> cell(4),
         Gets |-> IF gets.err = "nil" THEN gets.val ELSE 0,
         Size |-> parseFileSize(cell(6)).val,
         Name |-> cell(7)]

PositionalFields == {"Network", "Channel", "BotName", "Slot", "Gets", "Size", "Name"}

HasSevenCells(row) == Len(row) = 7

\* The rows after the header that have exactly seven cells, in document order.
SevenCellRows(d) == SelectSeq(SubSeq(d, 2, Len(d)), HasSevenCells)

\* C8: the list XdccEuProvider.Search returns holds, in document order,
\* exactly one descriptor for each row after the header that has exactly 7
\* cells, its fields taken from the cells position by position; rows with
\* another number of cells leave no trace and the returned error is nil.
C8_SevenCellRows ==
    pcEu = "returned" =>
        /\ euErr = "nil"
        /\ Len(fileInfos) = Len(SevenCellRows(doc))
        /\ \A p \in 1..Len(fileInfos) :
             \A f \in PositionalFields :
                fileInfos[p][f] = Positional(SevenCellRows(doc)[p])[f]
C8_Witness ==
    /\ pcEu = "returned"
    /\ Len(doc) = 3
    /\ Len(doc[2]) \in {6, 8}
    /\ Len(doc[3]) = 7
    /\ Len(fileInfos) = 1
    /\ fileInfos[1].Name = <<"a">>

\* C11: every descriptor XdccEuProvider.Search returns has a non-empty Name,
\* a non-empty BotName and a non-empty Slot.
C11_NamesNotEmpty ==
    pcEu = "returned" =>
        \A p \in 1..Len(fileInfos) :
            /\ fileInfos[p].Name # <<>>
            /\ fileInfos[p].BotName # <<>>
            /\ fileInfos[p].Slot # <<>>

\* The string s with its first occurrence of old replaced by new: t is s
\* when old does not occur in s; otherwise s and t split at some position
\* into the same two ends around old and new, and old does not occur at any
\* earlier position of s.
IsFirstReplaced(s, t, old, new) ==
    \/ /\ \A p \in 1..(Len(s) - Len(old) + 1) :
            SubSeq(s, p, p + Len(old) - 1) # old
       /\ t = s
    \/ \E p \in 1..(Len(s) - Len(old) + 1) :
        /\ SubSeq(s, p, p + Len(old) - 1) = old
        /\ \A q \in 1..(p - 1) : SubSeq(s, q, q + Len(old) - 1) # old
        /\ Len(t) = Len(s) - Len(old) + Len(new)
        /\ SubSeq(t, 1, p - 1) = SubSeq(s, 1, p - 1)
        /\ SubSeq(t, p, p + Len(new) - 1) = new
        /\ SubSeq(t, p + Len(new), Len(t)) = SubSeq(s, p + Len(old), Len(s))

C13_HeaderSkipped ==
    /\ rowIdx <= 1 => fileInfos = <<>>
    /\ Len(fileInfos) <= IF rowIdx = 0 THEN 0 ELSE rowIdx - 1
C13_Witness ==
    /\ pcEu = "returned"
    /\ Len(doc) = 2
    /\ Len(doc[1]) = 7
    /\ parseFields(RowFields(doc[1])).st = "ok"
    /\ Len(fileInfos) = 1

\* C14: a Gets cell that does not decode (an empty one, or one whose text
\* without its last character is no integer) leaves Gets at 0 and the row is
\* still returned; it never aborts the row or the Search call.
C14_GetsFailureKeepsRow ==
    /\ pcEu # "panicked"
    /\ pcEu = "returned" =>
        /\ Len(fileInfos) = Len(SevenCellRows(doc))
        /\ \A p \in 1..Len(fileInfos) :
            LET gets == TrimSpace(SevenCellRows(doc)[p][5].text)
            IN  (gets = <<>> \/ Atoi(SubSeq(gets, 1, Len(gets) - 1)).err # "nil")
                    => fileInfos[p].Gets = 0

(***************************************************************************)
(* Properties of the registry: the result list and the provider list       *)
(***************************************************************************)
\* r is a record that a provider which succeeded returned in this call.
FromProvider(r) ==
    /\ r.src \in Tasks
    /\ task[r.src].out = "ok"
    /\ r.idx \in 1..Len(task[r.src].res)
    /\ r = task[r.src].res[r.idx]

\* C15: during and after Search the result slice holds only records that a
\* provider which succeeded in this call returned, and none of them more
\* often than the provider returned it (once).
C15_OnlyReturnedRecords ==
    SearchCalled =>
        LET held == SliceOf(heap, allResults)
        IN  /\ \A p \in 1..Len(held) : FromProvider(held[p])
            /\ Cardinality({held[p] : p \in 1..Len(held)}) = Len(held)

\* The records of provider i in the list Search returned, in list order.
ReturnedFrom(i) ==
    LET IsFrom(r) == r.src = i
    IN  SelectSeq(returned, IsFrom)

\* C16: in the list Search returns, the records of one provider are in the
\* order in which the provider returned them, whatever the interleaving.
C16_ProviderOrderKept ==
    pcMain = "returned" =>
        \A i \in Tasks :
            \A p \in 1..(Len(ReturnedFrom(i)) - 1) :
                ReturnedFrom(i)[p].idx < ReturnedFrom(i)[p + 1].idx
C16_Witness ==
    /\ pcMain = "returned"
    /\ Len(task) = 2
    /\ Len(ReturnedFrom(1)) = 2
    /\ Len(ReturnedFrom(2)) >= 1
    /\ returned[1].src = 2

\* C17: the provider list never holds more than MaxProviders providers
\* (and AddProvider only ever appends to it).
C17_AtMostMaxProviders == Len(providerList) <= MaxProviders

\* C18: no step of Search changes the provider list, and the list a call of
\* Search returns holds only records its own provider calls produced, none
\* of an earlier call on the same registry.
C18_SearchKeepsNoState ==
    /\ [][pcMain' # "config" => providerList' = providerList]_vars
    /\ [](pcMain = "returned" =>
            \A p \in 1..Len(returned) : returned[p].call = callNo)
C18_Witness ==
    /\ pcMain = "returned"
    /\ callNo = 2
    /\ Len(task) = 2
    /\ Len(returned) = 2

\* C19: the list Search returns holds at most MaxResults records.
C19_AtMostMaxResults == Len(returned) <= MaxResults

====
